---- MODULE Spec2Model ----
(***************************************************************************)
(* State machine of pycomm3's CIPDriver (src/pycomm3/cip_driver.py): the   *)
(* session / connection life cycle driven by open(), close() and           *)
(* generic_message().  The driver is single threaded and every public      *)
(* method blocks until it returns or raises, so each public method is one  *)
(* atomic action.  The peer and the transport are the environment: every   *)
(* socket operation may fault and every reply may be a success or a        *)
(* protocol-level rejection.                                               *)
(*                                                                         *)
(* `drv` holds the fields of the driver instance, `call` is the record of  *)
(* the last public call: its arguments, the driver as it was when the call *)
(* started, what it returned or raised, and the transport events it        *)
(* caused, in order.  `hist` counts what has happened on the instance:     *)
(* whether open() was ever called, whether the frame-size preference was   *)
(* ever downgraded, the values drawn from the sequence counter (draws) and *)
(* the connected frames that went out on the wire (frames), and the        *)
(* transport connects and Register-Session frames since the last close().  *)
(***************************************************************************)
EXTENDS Integers, Sequences, FiniteSets, TLC

VARIABLES drv, call, hist, route, disc

vars == <<drv, call, hist, route, disc>>

\* ------------------------------------------------------------------ bounds

\* Session handles the target hands out are 1..MaxSession.
MaxSession == 2
\* Most local IPv4 addresses discover() probes from.
MaxAddrs == 2

\* Most datagrams one discovery probe receives before its receive times out.
MaxReplies == 2

\* Most tokens after the address of a connection path.
MaxSegments == 4

\* Connected requests are issued while the next sequence value is within
\* MaxDraws of either end of the cycle: 1..MaxDraws, or the last MaxDraws
\* values before the wrap.
MaxDraws == 3

\* ------------------------------------------------------------- constants

\* Python's None where the field is otherwise an integer (the session id).
NONE == -1
\* cycle(range(1, 65535)): the last value of the sequence cycle.
SeqLast == 65534
\* connection_size of the two frame-size classes.
ExtendedSize == 4000
StandardSize == 500

SessionIds == 1..MaxSession
Labels == {"generic", "tagA"}
\* What the environment does to one request/reply exchange.
Outcomes == {"ok", "rej", "txfault", "rxfault"}
\* One exchange of the environment: its outcome and, for Register-Session,
\* the session handle a successful reply carries.
Exchange(o, sid) == [out |-> o, sid |-> sid]
Plain(o) == Exchange(o, 1)

\* ------------------------------------------------------------ exceptions

NoExc == [type |-> "none", msgs |-> <<>>]
CommError(msgs) == [type |-> "CommError", msgs |-> msgs]
ResponseError(msgs) == [type |-> "ResponseError", msgs |-> msgs]
Raised(e) == e.type # "none"

\* ---------------------------------------------------------------- events

\* One transport event of a call.  kind is the request type of a frame, svc
\* its CIP service, session / seq / size are what the frame was built with,
\* valid is the truth value of the response built from a received reply.
Ev(ev, kind, svc, session, seq, size, valid) ==
    [ev |-> ev, kind |-> kind, svc |-> svc, session |-> session, seq |-> seq,
     size |-> size, valid |-> valid]
SockEv(ev) == Ev(ev, "-", "-", 0, 0, 0, FALSE)

\* Python truthiness of the session id: None and 0 are falsy.
Truthy(s) == s # NONE /\ s # 0

\* ------------------------------------------------------------- requests

\* RequestTypes.*: the request descriptors the driver builds.  error is the
\* request's own "marked invalid" flag, no_response is set for
\* Unregister-Session only, connected for generic_connected only.
Request(kind, svc, error) ==
    [kind |-> kind, svc |-> svc, error |-> error,
     no_response |-> (kind = "unregister_session"),
     connected |-> (kind = "generic_connected")]

\* The responses of the frame codec: truthy iff a reply arrived for a
\* request that was not invalid and the reply reports success.
NoReply == "None"
response_class(req, reply, sid) ==
    LET ok == (~req.error) /\ reply = "ok"
    IN [valid |-> ok,
        value |-> IF ok THEN "data" ELSE "None",
        error |-> IF ok THEN "None" ELSE "error",
        session |-> IF ok /\ req.kind = "register_session" THEN sid ELSE NONE]
NoResponse == [valid |-> FALSE, value |-> "None", error |-> "None", session |-> NONE]

\* next(self._sequence) on cycle(range(1, 65535)).
NextSeq(s) == IF s = SeqLast THEN 1 ELSE s + 1

\* CIPDriver.connection_size
connection_size(d) == IF d.ext THEN ExtendedSize ELSE StandardSize

\* request.build_request(**request_kwargs): the frame carries the session
\* id; a connected request draws one value from the sequence counter.
build_request(d, req) ==
    LET drawn == IF req.connected THEN d.seq ELSE 0
        sz == IF req.svc \in {"forward_open", "large_forward_open"}
              THEN connection_size(d) ELSE 0
    IN [d |-> IF req.connected THEN [d EXCEPT !.seq = NextSeq(d.seq)] ELSE d,
        frame |-> Ev("tx", req.kind, req.svc, d.session, drawn, sz, FALSE)]

\* CIPDriver._send: any failure of _sock.send (no socket object, a socket
\* that is not connected, a transport fault) becomes CommError.
_send(d, frame, x) ==
    IF d.sock = "None" \/ ~d.sockConn \/ x.out = "txfault"
    THEN [d |-> d, t |-> <<[frame EXCEPT !.ev = "tx_fault"]>>,
          exc |-> CommError(<<"failed to send message">>)]
    ELSE [d |-> d, t |-> <<frame>>, exc |-> NoExc]

\* CIPDriver._receive: a failure of _sock.receive becomes CommError.
_receive(d, req, x) ==
    IF d.sock = "None" \/ ~d.sockConn \/ x.out = "rxfault"
    THEN [d |-> d, t |-> <<Ev("rx_fault", req.kind, req.svc, 0, 0, 0, FALSE)>>,
          exc |-> CommError(<<"failed to receive reply">>), reply |-> NoReply]
    ELSE [d |-> d, t |-> <<Ev("rx", req.kind, req.svc, 0, 0, 0, x.out = "ok")>>,
          exc |-> NoExc, reply |-> x.out]

\* Names the result v of a step for the rest K of the handler.
Bind(v, K(_)) == K(v)

\* send() giving the drawn sequence value back when the transmit fails.
send_keeps_sequence_on_fault(d, req, x) ==
    IF ~req.error
    THEN Bind(build_request(d, req), LAMBDA b :
         Bind(_send(b.d, b.frame, x), LAMBDA s :
           IF Raised(s.exc)
           THEN [d |-> d, t |-> s.t, exc |-> s.exc, resp |-> NoResponse]
           ELSE IF req.no_response
           THEN [d |-> s.d, t |-> s.t, exc |-> NoExc,
                 resp |-> response_class(req, NoReply, x.sid)]
           ELSE Bind(_receive(s.d, req, x), LAMBDA r :
                  IF Raised(r.exc)
                  THEN [d |-> r.d, t |-> s.t \o r.t, exc |-> r.exc,
                        resp |-> NoResponse]
                  ELSE [d |-> r.d, t |-> s.t \o r.t, exc |-> NoExc,
                        resp |-> response_class(req, r.reply, x.sid)])))
    ELSE [d |-> d, t |-> <<>>, exc |-> NoExc,
          resp |-> response_class(req, NoReply, x.sid)]

\* send() waiting for a reply to every request it transmits.
send_always_receives(d, req, x) ==
    IF ~req.error
    THEN Bind(build_request(d, req), LAMBDA b :
         Bind(_send(b.d, b.frame, x), LAMBDA s :
           IF Raised(s.exc)
           THEN [d |-> s.d, t |-> s.t, exc |-> s.exc, resp |-> NoResponse]
           ELSE Bind(_receive(s.d, req, x), LAMBDA r :
                  IF Raised(r.exc)
                  THEN [d |-> r.d, t |-> s.t \o r.t, exc |-> r.exc,
                        resp |-> NoResponse]
                  ELSE [d |-> r.d, t |-> s.t \o r.t, exc |-> NoExc,
                        resp |-> response_class(req, r.reply, x.sid)])))
    ELSE [d |-> d, t |-> <<>>, exc |-> NoExc,
          resp |-> response_class(req, NoReply, x.sid)]

\* CIPDriver.send: the exchange primitive.
send(d, req, x) ==
    IF ~req.error
    THEN Bind(build_request(d, req), LAMBDA b :
         Bind(_send(b.d, b.frame, x), LAMBDA s :
           IF Raised(s.exc)
           THEN [d |-> s.d, t |-> s.t, exc |-> s.exc, resp |-> NoResponse]
           ELSE IF req.no_response
           THEN [d |-> s.d, t |-> s.t, exc |-> NoExc,
                 resp |-> response_class(req, NoReply, x.sid)]
           ELSE Bind(_receive(s.d, req, x), LAMBDA r :
                  IF Raised(r.exc)
                  THEN [d |-> r.d, t |-> s.t \o r.t, exc |-> r.exc,
                        resp |-> NoResponse]
                  ELSE [d |-> r.d, t |-> s.t \o r.t, exc |-> NoExc,
                        resp |-> response_class(req, r.reply, x.sid)])))
    ELSE [d |-> d, t |-> <<>>, exc |-> NoExc,
          resp |-> response_class(req, NoReply, x.sid)]

\* ------------------------------------------------------ generic messages

NoTag == [tag |-> "None", value |-> "None", error |-> "None"]
\* The exchanges one generic_message call may perform: the first and the
\* second Forward Open of its precondition, then the message itself.
CallEnv(fo1, fo2, msg) == [fo1 |-> fo1, fo2 |-> fo2, msg |-> msg]

\* bool(Tag): a value is present and no error is.
TagTruthy(tag) == tag.value # "None" /\ tag.error = "None"

\* generic_message raising on a response that reports an error.
generic_message_request_raising(d, service, name, connected, reqError, x) ==
    Bind(send(d, Request(IF connected THEN "generic_connected"
                                      ELSE "generic_unconnected",
                         service, reqError), x), LAMBDA r :
      IF Raised(r.exc)
      THEN [d |-> r.d, t |-> r.t, exc |-> r.exc, tag |-> NoTag]
      ELSE IF r.resp.error # "None"
      THEN [d |-> r.d, t |-> r.t, exc |-> ResponseError(<<r.resp.error>>),
            tag |-> NoTag]
      ELSE [d |-> r.d, t |-> r.t, exc |-> NoExc,
            tag |-> [tag |-> name, value |-> r.resp.value,
                     error |-> r.resp.error]])

\* CIPDriver.generic_message from the request descriptor on: build the
\* connected or unconnected request, exchange it, wrap the result in a Tag.
\* A call with connected=False is exactly this.
generic_message_request(d, service, name, connected, reqError, x) ==
    Bind(send(d, Request(IF connected THEN "generic_connected"
                                      ELSE "generic_unconnected",
                         service, reqError), x), LAMBDA r :
      IF Raised(r.exc)
      THEN [d |-> r.d, t |-> r.t, exc |-> r.exc, tag |-> NoTag]
      ELSE [d |-> r.d, t |-> r.t, exc |-> NoExc,
            tag |-> [tag |-> name, value |-> r.resp.value,
                     error |-> r.resp.error]])

\* _forward_open without the registered-session check.
_forward_open_unchecked_session(d, x) ==
    IF d.tconn
    THEN [d |-> d, t |-> <<>>, exc |-> NoExc, ret |-> TRUE]
    ELSE Bind(generic_message_request(
                  d, IF ~d.ext THEN "forward_open" ELSE "large_forward_open",
                  "__FORWARD_OPEN__", FALSE, FALSE, x), LAMBDA r :
           IF Raised(r.exc)
           THEN [d |-> r.d, t |-> r.t, exc |-> r.exc, ret |-> FALSE]
           ELSE IF TagTruthy(r.tag)
           THEN [d |-> [r.d EXCEPT !.tcid = "cid", !.tconn = TRUE],
                 t |-> r.t, exc |-> NoExc, ret |-> TRUE]
           ELSE [d |-> r.d, t |-> r.t, exc |-> NoExc, ret |-> FALSE])

\* _forward_open without the early return when already connected.
_forward_open_not_memoized(d, x) ==
    IF d.session = 0
    THEN [d |-> d, t |-> <<>>,
          exc |-> CommError(<<"A Session Not Registered Before forward_open.">>),
          ret |-> FALSE]
    ELSE Bind(generic_message_request(
                  d, IF ~d.ext THEN "forward_open" ELSE "large_forward_open",
                  "__FORWARD_OPEN__", FALSE, FALSE, x), LAMBDA r :
           IF Raised(r.exc)
           THEN [d |-> r.d, t |-> r.t, exc |-> r.exc, ret |-> FALSE]
           ELSE IF TagTruthy(r.tag)
           THEN [d |-> [r.d EXCEPT !.tcid = "cid", !.tconn = TRUE],
                 t |-> r.t, exc |-> NoExc, ret |-> TRUE]
           ELSE [d |-> r.d, t |-> r.t, exc |-> NoExc, ret |-> FALSE])

\* CIPDriver._forward_open: memoized; the request goes out unconnected.
_forward_open(d, x) ==
    IF d.tconn
    THEN [d |-> d, t |-> <<>>, exc |-> NoExc, ret |-> TRUE]
    ELSE IF d.session = 0
    THEN [d |-> d, t |-> <<>>,
          exc |-> CommError(<<"A Session Not Registered Before forward_open.">>),
          ret |-> FALSE]
    ELSE Bind(generic_message_request(
                  d, IF ~d.ext THEN "forward_open" ELSE "large_forward_open",
                  "__FORWARD_OPEN__", FALSE, FALSE, x), LAMBDA r :
           IF Raised(r.exc)
           THEN [d |-> r.d, t |-> r.t, exc |-> r.exc, ret |-> FALSE]
           ELSE IF TagTruthy(r.tag)
           THEN [d |-> [r.d EXCEPT !.tcid = "cid", !.tconn = TRUE],
                 t |-> r.t, exc |-> NoExc, ret |-> TRUE]
           ELSE [d |-> r.d, t |-> r.t, exc |-> NoExc, ret |-> FALSE])

\* with_forward_open taking a fault of the Extended attempt for a rejection.
with_forward_open_retry_on_fault(d, x1, x2) ==
    Bind(_forward_open(d, x1), LAMBDA a :
      IF Raised(a.exc) /\ ~a.d.ext
      THEN [d |-> a.d, t |-> a.t, exc |-> a.exc, ran |-> FALSE]
      ELSE IF ~Raised(a.exc) /\ a.ret
      THEN [d |-> a.d, t |-> a.t, exc |-> NoExc, ran |-> TRUE]
      ELSE IF a.d.ext
      THEN Bind(_forward_open([a.d EXCEPT !.ext = FALSE], x2), LAMBDA b :
             IF Raised(b.exc)
             THEN [d |-> b.d, t |-> a.t \o b.t, exc |-> b.exc, ran |-> FALSE]
             ELSE IF b.ret
             THEN [d |-> b.d, t |-> a.t \o b.t, exc |-> NoExc, ran |-> TRUE]
             ELSE [d |-> b.d, t |-> a.t \o b.t,
                   exc |-> ResponseError(<<"Target did not connected.">>),
                   ran |-> FALSE])
      ELSE [d |-> a.d, t |-> a.t,
            exc |-> ResponseError(<<"Target did not connected.">>),
            ran |-> FALSE])

\* with_forward_open retrying whatever the preference is.
with_forward_open_always_retry(d, x1, x2) ==
    Bind(_forward_open(d, x1), LAMBDA a :
      IF Raised(a.exc)
      THEN [d |-> a.d, t |-> a.t, exc |-> a.exc, ran |-> FALSE]
      ELSE IF a.ret
      THEN [d |-> a.d, t |-> a.t, exc |-> NoExc, ran |-> TRUE]
      ELSE Bind(_forward_open([a.d EXCEPT !.ext = FALSE], x2), LAMBDA b :
             IF Raised(b.exc)
             THEN [d |-> b.d, t |-> a.t \o b.t, exc |-> b.exc, ran |-> FALSE]
             ELSE IF b.ret
             THEN [d |-> b.d, t |-> a.t \o b.t, exc |-> NoExc, ran |-> TRUE]
             ELSE [d |-> b.d, t |-> a.t \o b.t,
                   exc |-> ResponseError(<<"Target did not connected.">>),
                   ran |-> FALSE]))

\* with_forward_open(func).wrapped: the fallback policy.  ran tells whether
\* func was called.
with_forward_open(d, x1, x2) ==
    Bind(_forward_open(d, x1), LAMBDA a :
      IF Raised(a.exc)
      THEN [d |-> a.d, t |-> a.t, exc |-> a.exc, ran |-> FALSE]
      ELSE IF a.ret
      THEN [d |-> a.d, t |-> a.t, exc |-> NoExc, ran |-> TRUE]
      ELSE IF a.d.ext
      THEN Bind(_forward_open([a.d EXCEPT !.ext = FALSE], x2), LAMBDA b :
             IF Raised(b.exc)
             THEN [d |-> b.d, t |-> a.t \o b.t, exc |-> b.exc, ran |-> FALSE]
             ELSE IF b.ret
             THEN [d |-> b.d, t |-> a.t \o b.t, exc |-> NoExc, ran |-> TRUE]
             ELSE [d |-> b.d, t |-> a.t \o b.t,
                   exc |-> ResponseError(<<"Target did not connected.">>),
                   ran |-> FALSE])
      ELSE [d |-> a.d, t |-> a.t,
            exc |-> ResponseError(<<"Target did not connected.">>),
            ran |-> FALSE])

\* CIPDriver.generic_message
generic_message(d, service, name, connected, reqError, e) ==
    Bind(IF connected
         THEN with_forward_open(d, e.fo1, e.fo2)
         ELSE [d |-> d, t |-> <<>>, exc |-> NoExc, ran |-> TRUE], LAMBDA pre :
      IF Raised(pre.exc)
      THEN [d |-> pre.d, t |-> pre.t, exc |-> pre.exc, tag |-> NoTag]
      ELSE Bind(generic_message_request(pre.d, service, name, connected,
                                        reqError, e.msg), LAMBDA r :
             [d |-> r.d, t |-> pre.t \o r.t, exc |-> r.exc, tag |-> r.tag]))

\* ---------------------------------------------------------------- open

\* _register_session registering whether or not a session id is known.
_register_session_always_sends(d, x) ==
    Bind(send([d EXCEPT !.session = 0],
              Request("register_session", "-", FALSE), x), LAMBDA r :
      IF Raised(r.exc)
      THEN [d |-> r.d, t |-> r.t, exc |-> r.exc, ret |-> NONE]
      ELSE IF r.resp.valid
      THEN [d |-> [r.d EXCEPT !.session = r.resp.session], t |-> r.t,
            exc |-> NoExc, ret |-> r.resp.session]
      ELSE [d |-> r.d, t |-> r.t, exc |-> NoExc, ret |-> NONE])

\* CIPDriver._register_session
_register_session(d, x) ==
    IF Truthy(d.session)
    THEN [d |-> d, t |-> <<>>, exc |-> NoExc, ret |-> d.session]
    ELSE Bind(send([d EXCEPT !.session = 0],
                   Request("register_session", "-", FALSE), x), LAMBDA r :
           IF Raised(r.exc)
           THEN [d |-> r.d, t |-> r.t, exc |-> r.exc, ret |-> NONE]
           ELSE IF r.resp.valid
           THEN [d |-> [r.d EXCEPT !.session = r.resp.session], t |-> r.t,
                 exc |-> NoExc, ret |-> r.resp.session]
           ELSE [d |-> r.d, t |-> r.t, exc |-> NoExc, ret |-> NONE])

\* open() drawing all four identifiers anew.
open_regenerates_all(d, connect, x) ==
    IF d.opened
    THEN [d |-> d, t |-> <<>>, exc |-> NoExc, ret |-> "None"]
    ELSE IF connect = "fault"
    THEN [d |-> [d EXCEPT !.sock = "Socket"],
          t |-> <<SockEv("connect_fault")>>,
          exc |-> CommError(<<"failed to open a connection">>),
          ret |-> "None"]
    ELSE Bind(_register_session(
                  [d EXCEPT !.sock = "Socket", !.sockConn = TRUE,
                            !.opened = TRUE,
                            !.cid = "urandom", !.csn = "urandom",
                            !.vid = "urandom", !.vsn = "urandom"], x), LAMBDA r :
           IF Raised(r.exc)
           THEN [d |-> r.d, t |-> <<SockEv("connect")>> \o r.t,
                 exc |-> CommError(<<"failed to open a connection">>),
                 ret |-> "None"]
           ELSE [d |-> r.d, t |-> <<SockEv("connect")>> \o r.t, exc |-> NoExc,
                 ret |-> IF r.ret = NONE THEN "False" ELSE "True"])

\* open() without the early return when the transport is already open.
open_not_guarded(d, connect, x) ==
    IF connect = "fault"
    THEN [d |-> [d EXCEPT !.sock = "Socket"],
          t |-> <<SockEv("connect_fault")>>,
          exc |-> CommError(<<"failed to open a connection">>),
          ret |-> "None"]
    ELSE Bind(_register_session(
                  [d EXCEPT !.sock = "Socket", !.sockConn = TRUE,
                            !.opened = TRUE,
                            !.cid = "urandom", !.vsn = "urandom"], x), LAMBDA r :
           IF Raised(r.exc)
           THEN [d |-> r.d, t |-> <<SockEv("connect")>> \o r.t,
                 exc |-> CommError(<<"failed to open a connection">>),
                 ret |-> "None"]
           ELSE [d |-> r.d, t |-> <<SockEv("connect")>> \o r.t, exc |-> NoExc,
                 ret |-> IF r.ret = NONE THEN "False" ELSE "True"])

\* open() raising when the session was not registered.
open_raises_unregistered(d, connect, x) ==
    IF d.opened
    THEN [d |-> d, t |-> <<>>, exc |-> NoExc, ret |-> "None"]
    ELSE IF connect = "fault"
    THEN [d |-> [d EXCEPT !.sock = "Socket"],
          t |-> <<SockEv("connect_fault")>>,
          exc |-> CommError(<<"failed to open a connection">>),
          ret |-> "None"]
    ELSE Bind(_register_session(
                  [d EXCEPT !.sock = "Socket", !.sockConn = TRUE,
                            !.opened = TRUE,
                            !.cid = "urandom", !.vsn = "urandom"], x), LAMBDA r :
           IF Raised(r.exc) \/ r.ret = NONE
           THEN [d |-> r.d, t |-> <<SockEv("connect")>> \o r.t,
                 exc |-> CommError(<<"failed to open a connection">>),
                 ret |-> "None"]
           ELSE [d |-> r.d, t |-> <<SockEv("connect")>> \o r.t, exc |-> NoExc,
                 ret |-> "True"])

\* CIPDriver.open.  connect is the outcome of _sock.connect, x the
\* Register-Session exchange.  ret is "None", "True" or "False".
open(d, connect, x) ==
    IF d.opened
    THEN [d |-> d, t |-> <<>>, exc |-> NoExc, ret |-> "None"]
    ELSE IF connect = "fault"
    THEN [d |-> [d EXCEPT !.sock = "Socket"],
          t |-> <<SockEv("connect_fault")>>,
          exc |-> CommError(<<"failed to open a connection">>),
          ret |-> "None"]
    ELSE Bind(_register_session(
                  [d EXCEPT !.sock = "Socket", !.sockConn = TRUE,
                            !.opened = TRUE,
                            !.cid = "urandom", !.vsn = "urandom"], x), LAMBDA r :
           IF Raised(r.exc)
           THEN [d |-> r.d, t |-> <<SockEv("connect")>> \o r.t,
                 exc |-> CommError(<<"failed to open a connection">>),
                 ret |-> "None"]
           ELSE [d |-> r.d, t |-> <<SockEv("connect")>> \o r.t, exc |-> NoExc,
                 ret |-> IF r.ret = NONE THEN "False" ELSE "True"])

\* --------------------------------------------------------------- close

\* CIPDriver._un_register_session
_un_register_session(d, x) ==
    Bind(send(d, Request("unregister_session", "-", FALSE), x), LAMBDA r :
      IF Raised(r.exc)
      THEN [d |-> r.d, t |-> r.t, exc |-> r.exc]
      ELSE [d |-> [r.d EXCEPT !.session = NONE], t |-> r.t, exc |-> NoExc])

\* CIPDriver._forward_close
_forward_close(d, x) ==
    IF d.session = 0
    THEN [d |-> d, t |-> <<>>,
          exc |-> CommError(<<"A session need to be registered before to call forward_close.">>),
          ret |-> FALSE]
    ELSE Bind(generic_message_request(d, "forward_close", "__FORWARD_CLOSE__",
                                      FALSE, FALSE, x), LAMBDA r :
           IF Raised(r.exc)
           THEN [d |-> r.d, t |-> r.t, exc |-> r.exc, ret |-> FALSE]
           ELSE IF TagTruthy(r.tag)
           THEN [d |-> [r.d EXCEPT !.tconn = FALSE], t |-> r.t,
                 exc |-> NoExc, ret |-> TRUE]
           ELSE [d |-> r.d, t |-> r.t, exc |-> NoExc, ret |-> FALSE])

\* The first try block of close() with its two steps in the other order.
close_session_unregister_first(d, fc, unreg) ==
    Bind(IF d.session # 0 THEN _un_register_session(d, unreg)
         ELSE [d |-> d, t |-> <<>>, exc |-> NoExc], LAMBDA a :
      IF Raised(a.exc)
      THEN [d |-> a.d, t |-> a.t, errs |-> a.exc.msgs]
      ELSE IF a.d.tconn
      THEN Bind(_forward_close(a.d, fc), LAMBDA b :
             [d |-> b.d, t |-> a.t \o b.t, errs |-> b.exc.msgs])
      ELSE [d |-> a.d, t |-> a.t, errs |-> <<>>])

\* The first try block of close(): Forward Close, then Unregister-Session;
\* whatever either raises ends the block and is collected.
close_session(d, fc, unreg) ==
    Bind(IF d.tconn THEN _forward_close(d, fc)
         ELSE [d |-> d, t |-> <<>>, exc |-> NoExc, ret |-> FALSE], LAMBDA a :
      IF Raised(a.exc)
      THEN [d |-> a.d, t |-> a.t, errs |-> a.exc.msgs]
      ELSE IF a.d.session # 0
      THEN Bind(_un_register_session(a.d, unreg), LAMBDA b :
             [d |-> b.d, t |-> a.t \o b.t, errs |-> b.exc.msgs])
      ELSE [d |-> a.d, t |-> a.t, errs |-> <<>>])

\* The second try block of close(): _sock.close() when there is a socket.
close_socket(d, sockclose) ==
    IF d.sock # "None"
    THEN IF sockclose = "fault"
         THEN [d |-> d, t |-> <<SockEv("sock_close_fault")>>,
               errs |-> <<"socket close failed">>]
         ELSE [d |-> [d EXCEPT !.sockConn = FALSE],
               t |-> <<SockEv("sock_close")>>, errs |-> <<>>]
    ELSE [d |-> d, t |-> <<>>, errs |-> <<>>]

\* close() building its configuration anew: the preference is Extended again.
close_resets_preference(d, fc, unreg, sockclose) ==
    Bind(close_session(d, fc, unreg), LAMBDA a :
    Bind(close_socket(a.d, sockclose), LAMBDA b :
      [d |-> [b.d EXCEPT !.sock = "None", !.sockConn = FALSE,
                         !.tconn = FALSE, !.session = 0, !.opened = FALSE,
                         !.ext = TRUE],
       t |-> a.t \o b.t,
       exc |-> IF a.errs \o b.errs # <<>>
               THEN CommError(a.errs \o b.errs) ELSE NoExc]))

\* close() raising the aggregate fault before it resets the driver.
close_raises_before_reset(d, fc, unreg, sockclose) ==
    Bind(close_session(d, fc, unreg), LAMBDA a :
    Bind(close_socket(a.d, sockclose), LAMBDA b :
      IF a.errs \o b.errs # <<>>
      THEN [d |-> b.d, t |-> a.t \o b.t, exc |-> CommError(a.errs \o b.errs)]
      ELSE [d |-> [b.d EXCEPT !.sock = "None", !.sockConn = FALSE,
                              !.tconn = FALSE, !.session = 0,
                              !.opened = FALSE],
            t |-> a.t \o b.t, exc |-> NoExc]))

\* close() starting the sequence counter again.
close_resets_sequence(d, fc, unreg, sockclose) ==
    Bind(close_session(d, fc, unreg), LAMBDA a :
    Bind(close_socket(a.d, sockclose), LAMBDA b :
      [d |-> [b.d EXCEPT !.sock = "None", !.sockConn = FALSE,
                         !.tconn = FALSE, !.session = 0, !.opened = FALSE,
                         !.seq = 1],
       t |-> a.t \o b.t,
       exc |-> IF a.errs \o b.errs # <<>>
               THEN CommError(a.errs \o b.errs) ELSE NoExc]))

\* close() leaving the session id as _un_register_session left it.
close_keeps_unregistered_session(d, fc, unreg, sockclose) ==
    Bind(close_session(d, fc, unreg), LAMBDA a :
    Bind(close_socket(a.d, sockclose), LAMBDA b :
      [d |-> [b.d EXCEPT !.sock = "None", !.sockConn = FALSE,
                         !.tconn = FALSE, !.opened = FALSE],
       t |-> a.t \o b.t,
       exc |-> IF a.errs \o b.errs # <<>>
               THEN CommError(a.errs \o b.errs) ELSE NoExc]))

\* close() leaving the connection flag to _forward_close alone.
close_keeps_connection_flag(d, fc, unreg, sockclose) ==
    Bind(close_session(d, fc, unreg), LAMBDA a :
    Bind(close_socket(a.d, sockclose), LAMBDA b :
      [d |-> [b.d EXCEPT !.sock = "None", !.sockConn = FALSE,
                         !.session = 0, !.opened = FALSE],
       t |-> a.t \o b.t,
       exc |-> IF a.errs \o b.errs # <<>>
               THEN CommError(a.errs \o b.errs) ELSE NoExc]))

\* CIPDriver.close
close(d, fc, unreg, sockclose) ==
    Bind(close_session(d, fc, unreg), LAMBDA a :
    Bind(close_socket(a.d, sockclose), LAMBDA b :
      [d |-> [b.d EXCEPT !.sock = "None", !.sockConn = FALSE,
                         !.tconn = FALSE, !.session = 0, !.opened = FALSE],
       t |-> a.t \o b.t,
       exc |-> IF a.errs \o b.errs # <<>>
               THEN CommError(a.errs \o b.errs) ELSE NoExc]))

\* ------------------------------------------------------- state machine

\* CIPDriver.__init__(path, large_packets=..., socket=..., session=...).
\* An injected socket is a Socket object that open() has yet to connect.
(***************************************************************************)
(* parse_connection_path.  A path is a sequence of text pieces: the two    *)
(* separators and pieces that contain neither.  A token is the sequence of *)
(* pieces between two separators.                                          *)
(***************************************************************************)
Pieces == {"/", "\\", "10.20.30.100", "bp", "2"}

Tokens == {<<>>, <<"10.20.30.100">>, <<"bp">>, <<"2">>}

\* ipaddress.ip_address(ip) returns instead of raising ValueError
ValidAddress(ip) == ip = <<"10.20.30.100">>

Str(token) == [type |-> "str", val |-> token]

IntZero == [type |-> "int", val |-> <<"0">>]

PortSegment(port, link) == [port |-> port, link |-> link]

RequestError(msgs) == [type |-> "RequestError", msgs |-> msgs]

\* path.replace('\\', '/')
Replace(path) == [i \in 1..Len(path) |-> IF path[i] = "\\" THEN "/" ELSE path[i]]

\* Position of the k-th '/' of path; 0 before the first, Len + 1 after the last.
SepAt(path, k) ==
    IF k = 0 THEN 0
    ELSE IF k > Cardinality({i \in 1..Len(path) : path[i] = "/"}) THEN Len(path) + 1
    ELSE CHOOSE i \in 1..Len(path) :
            /\ path[i] = "/"
            /\ Cardinality({j \in 1..i : path[j] = "/"}) = k

\* path.split('/')
Split(path) ==
    [k \in 1..(Cardinality({i \in 1..Len(path) : path[i] = "/"}) + 1) |->
        SubSeq(path, SepAt(path, k - 1) + 1, SepAt(path, k) - 1)]

\* segments[i:i + 2] for i in range(0, len(segments), 2)
Pairs(segments) ==
    [k \in 1..((Len(segments) + 1) \div 2) |->
        SubSeq(segments, 2 * k - 1,
               IF 2 * k <= Len(segments) THEN 2 * k ELSE Len(segments))]

ParseFailed == [ip |-> <<>>, segments |-> <<>>,
                exc |-> RequestError(<<"Failed to parse connection path">>)]

\* The parser with the pairwise grouping keeping only whole pairs.
parse_connection_path_dropping(path) ==
    Bind(Split(Replace(path)), LAMBDA toks :
    Bind(Tail(toks), LAMBDA segments :
      IF ~ValidAddress(toks[1]) THEN ParseFailed
      ELSE [ip |-> toks[1],
            segments |->
               IF segments = <<>> THEN <<PortSegment(Str(<<"bp">>), IntZero)>>
               ELSE IF Len(segments) = 1
                    THEN <<PortSegment(Str(<<"bp">>), Str(segments[1]))>>
               ELSE [k \in 1..(Len(segments) \div 2) |->
                        PortSegment(Str(segments[2 * k - 1]), Str(segments[2 * k]))],
            exc |-> NoExc]))

\* The parser with the single-token case taking the default link.
parse_connection_path_default_link(path) ==
    Bind(Split(Replace(path)), LAMBDA toks :
    Bind(Tail(toks), LAMBDA segments :
      IF ~ValidAddress(toks[1]) THEN ParseFailed
      ELSE IF Len(segments) <= 1
           THEN [ip |-> toks[1],
                 segments |-> <<PortSegment(Str(<<"bp">>), IntZero)>>,
                 exc |-> NoExc]
      ELSE IF \E k \in DOMAIN Pairs(segments) : Len(Pairs(segments)[k]) # 2
           THEN ParseFailed
      ELSE [ip |-> toks[1],
            segments |-> [k \in DOMAIN Pairs(segments) |->
                            PortSegment(Str(Pairs(segments)[k][1]),
                                        Str(Pairs(segments)[k][2]))],
            exc |-> NoExc]))

\* parse_connection_path: every exception of the body, the invalid address
\* and the failed unpacking of a (port, link) pair alike, leaves as the
\* RequestError of the outer handler.
parse_connection_path(path) ==
    Bind(Split(Replace(path)), LAMBDA toks :
    Bind(Tail(toks), LAMBDA segments :
      IF ~ValidAddress(toks[1]) THEN ParseFailed
      ELSE IF segments = <<>>
           THEN [ip |-> toks[1],
                 segments |-> <<PortSegment(Str(<<"bp">>), IntZero)>>,
                 exc |-> NoExc]
      ELSE IF Len(segments) = 1
           THEN [ip |-> toks[1],
                 segments |-> <<PortSegment(Str(<<"bp">>), Str(segments[1]))>>,
                 exc |-> NoExc]
      ELSE IF \E k \in DOMAIN Pairs(segments) : Len(Pairs(segments)[k]) # 2
           THEN ParseFailed
      ELSE [ip |-> toks[1],
            segments |-> [k \in DOMAIN Pairs(segments) |->
                            PortSegment(Str(Pairs(segments)[k][1]),
                                        Str(Pairs(segments)[k][2]))],
            exc |-> NoExc]))

\* The path text made of the tokens toks joined by the separators seps.
Join(toks, seps) ==
    LET J[k \in 1..Len(toks)] ==
            IF k = 1 THEN toks[1] ELSE J[k - 1] \o <<seps[k - 1]>> \o toks[k]
    IN  J[Len(toks)]

\* The route of a driver: the path text given to the constructor, the
\* tokens it was written from, and what parse_connection_path made of it.
Given(toks, path) ==
    [toks |-> toks, path |-> path, phase |-> "given",
     ip |-> <<>>, segments |-> <<>>, exc |-> NoExc]

Parsed(r, p) ==
    [r EXCEPT !.phase = "parsed", !.ip = p.ip, !.segments = p.segments,
              !.exc = p.exc]

DefaultRoute ==
    Parsed(Given(<<<<"10.20.30.100">>>>, <<"10.20.30.100">>),
           parse_connection_path(<<"10.20.30.100">>))

(***************************************************************************)
(* discover and _broadcast_discover.  A discovery is the position of the   *)
(* classmethod (pc), the local addresses still to probe from, the devices  *)
(* of the probe in progress (found) and of the finished probes (devices),  *)
(* and counts of the probes begun, the receives made, the datagrams        *)
(* received, and the datagrams received by the probe in progress.          *)
(***************************************************************************)
NoDiscovery ==
    [pc |-> "idle", addrs |-> 0, ip |-> "-", found |-> <<>>, devices |-> <<>>,
     fellBack |-> FALSE, probes |-> 0, recvs |-> 0, got |-> 0, replies |-> 0,
     last |-> "-"]

\* discover up to the loop over the local addresses
discover_begin(p, n) == [p EXCEPT !.pc = "loop", !.addrs = n]

\* _broadcast_discover up to the receive loop: the socket is created,
\* configured, bound when an address is given, and the probe is sent; a
\* failure of any of these leaves discover as an exception.
broadcast_discover_begin(p, ip, setup) ==
    IF setup = "fault"
    THEN [p EXCEPT !.pc = "raised", !.ip = ip, !.probes = @ + 1]
    ELSE [p EXCEPT !.pc = "recv", !.ip = ip, !.probes = @ + 1,
                   !.found = <<>>, !.replies = 0,
                   !.addrs = IF ip = "None" THEN @ ELSE @ - 1,
                   !.fellBack = (ip = "None")]

\* One pass of the receive loop that goes round again when the receive
\* times out.
broadcast_discover_recv_again(p, o) ==
    IF o = "match"
    THEN [p EXCEPT !.found = Append(@, "identity"), !.recvs = @ + 1,
                   !.got = @ + 1, !.replies = @ + 1, !.last = o]
    ELSE IF o \in {"nomatch", "timeout"}
    THEN [p EXCEPT !.recvs = @ + 1, !.last = o,
                   !.got = IF o = "timeout" THEN @ ELSE @ + 1,
                   !.replies = IF o = "timeout" THEN @ ELSE @ + 1]
    ELSE [p EXCEPT !.pc = "loop", !.devices = @ \o p.found, !.found = <<>>,
                   !.recvs = @ + 1, !.last = o,
                   !.got = IF o = "garbage" THEN @ + 1 ELSE @]

\* One pass of the receive loop of _broadcast_discover: a datagram whose
\* response is truthy and echoes the context adds a device ("match"), any
\* other decodable datagram adds nothing ("nomatch"); any exception, the
\* receive timeout ("timeout"), another socket error ("fault") or a
\* datagram the response class cannot decode ("garbage"), breaks the loop
\* and the probe returns its devices to discover.
broadcast_discover_recv(p, o) ==
    IF o = "match"
    THEN [p EXCEPT !.found = Append(@, "identity"), !.recvs = @ + 1,
                   !.got = @ + 1, !.replies = @ + 1, !.last = o]
    ELSE IF o = "nomatch"
    THEN [p EXCEPT !.recvs = @ + 1, !.got = @ + 1, !.replies = @ + 1,
                   !.last = o]
    ELSE [p EXCEPT !.pc = "loop", !.devices = @ \o p.found, !.found = <<>>,
                   !.recvs = @ + 1, !.last = o,
                   !.got = IF o = "garbage" THEN @ + 1 ELSE @]

\* discover after the last probe
discover_return(p) == [p EXCEPT !.pc = "returned"]

__init__(large_packets, socket, session) ==
    [sock |-> socket, sockConn |-> FALSE, session |-> session,
     opened |-> FALSE, tcid |-> "None", tconn |-> FALSE,
     ext |-> large_packets, seq |-> 1,
     cid |-> "ctor", csn |-> "ctor", vid |-> "ctor", vsn |-> "ctor"]

Call(op, connected, name, reqError, r, ret, tag) ==
    [op |-> op, connected |-> connected, name |-> name, reqError |-> reqError,
     pre |-> drv, fresh |-> ~hist.everOpened,
     exc |-> r.exc, ret |-> ret, tag |-> tag, trace |-> r.t]

Count(t, ev, kind) ==
    Cardinality({i \in 1..Len(t) : t[i].ev = ev /\ t[i].kind = kind})

Init ==
    /\ \E lp \in BOOLEAN, sk \in {"None", "Socket"}, ss \in {NONE} \cup (0..MaxSession) :
          drv = __init__(lp, sk, ss)
    /\ call = [op |-> "init", connected |-> FALSE, name |-> "None",
               reqError |-> FALSE, pre |-> drv, fresh |-> TRUE,
               exc |-> NoExc, ret |-> "None", tag |-> NoTag, trace |-> <<>>]
    /\ hist = [everOpened |-> FALSE, downgraded |-> FALSE,
               connects |-> 0, registers |-> 0, draws |-> 0,
               frames |-> 0]
    /\ route = DefaultRoute
    /\ disc = NoDiscovery

Open ==
    \E c \in {"ok", "fault"}, o \in Outcomes :
      \E sid \in IF c = "ok" /\ o = "ok" THEN SessionIds ELSE {1} :
        \E r \in {open(drv, c, Exchange(o, sid))} :
           /\ drv' = r.d
           /\ call' = Call("open", FALSE, "None", FALSE, r, r.ret, NoTag)
           /\ hist' = [everOpened |-> TRUE, downgraded |-> hist.downgraded,
                       draws |-> hist.draws, frames |-> hist.frames,
                       connects |-> hist.connects + Count(r.t, "connect", "-"),
                       registers |-> hist.registers
                                     + Count(r.t, "tx", "register_session")]
           /\ UNCHANGED <<route, disc>>

GenericMessage ==
    \E name \in Labels, connected \in BOOLEAN, reqError \in BOOLEAN,
       msg \in Outcomes :
      \E fo1 \in IF connected THEN Outcomes ELSE {"ok"} :
      \E fo2 \in IF connected /\ fo1 = "rej" THEN Outcomes ELSE {"ok"} :
        /\ connected => (drv.seq <= MaxDraws \/ drv.seq > SeqLast - MaxDraws)
        /\ \E r \in {generic_message(drv, "user", name, connected, reqError,
                                      CallEnv(Plain(fo1), Plain(fo2), Plain(msg)))} :
              /\ drv' = r.d
              /\ call' = Call("generic_message", connected, name,
                              reqError, r, "None", r.tag)
              /\ hist' = [hist EXCEPT
                            !.downgraded = @ \/ (drv.ext /\ ~r.d.ext),
                            !.frames = @ + Count(r.t, "tx", "generic_connected"),
                            !.draws = @ + Count(r.t, "tx", "generic_connected")
                                        + Count(r.t, "tx_fault", "generic_connected")]
              /\ UNCHANGED <<route, disc>>

Close ==
    \E fc \in Outcomes, unreg \in {"ok", "txfault"}, sc \in {"ok", "fault"} :
        \E r \in {close(drv, Plain(fc), Plain(unreg), sc)} :
           /\ drv' = r.d
           /\ call' = Call("close", FALSE, "None", FALSE, r, "None", NoTag)
           /\ hist' = [hist EXCEPT !.connects = 0, !.registers = 0]
           /\ UNCHANGED <<route, disc>>

Next == Open \/ GenericMessage \/ Close

Spec == Init /\ [][Next]_vars

\* The driver constructed without the socket and session keywords.
InitDefault ==
    /\ Init
    /\ drv.sock = "None"
    /\ drv.session = NONE

SpecDefault == InitDefault /\ [][Next]_vars

\* The driver MaxDraws values before the wrap of its sequence counter: the
\* state after open(), a Forward Open and SeqLast - MaxDraws connected
\* requests, all successful.
InitWrap ==
    \E pre \in {[__init__(TRUE, "None", NONE) EXCEPT
                   !.sock = "Socket", !.sockConn = TRUE, !.session = 1,
                   !.opened = TRUE, !.tcid = "cid", !.tconn = TRUE,
                   !.cid = "urandom", !.vsn = "urandom",
                   !.seq = SeqLast - MaxDraws]} :
      \E r \in {generic_message(pre, "user", "generic", TRUE, FALSE,
                                 CallEnv(Plain("ok"), Plain("ok"), Plain("ok")))} :
        /\ drv = r.d
        /\ call = [op |-> "generic_message", connected |-> TRUE,
                   name |-> "generic", reqError |-> FALSE, pre |-> pre,
                   fresh |-> FALSE, exc |-> r.exc, ret |-> "None",
                   tag |-> r.tag, trace |-> r.t]
        /\ hist = [everOpened |-> TRUE, downgraded |-> FALSE,
                   connects |-> 1, registers |-> 1,
                   draws |-> SeqLast - MaxDraws,
                   frames |-> SeqLast - MaxDraws]
        /\ route = DefaultRoute
        /\ disc = NoDiscovery

SpecWrap == InitWrap /\ [][Next]_vars

\* The constructor's use of the parser, on every path of at most
\* MaxSegments tokens after the first, each separator written either way.
InitParse ==
    /\ drv = __init__(TRUE, "None", NONE)
    /\ call = [op |-> "init", connected |-> FALSE, name |-> "None",
               reqError |-> FALSE, pre |-> drv, fresh |-> TRUE,
               exc |-> NoExc, ret |-> "None", tag |-> NoTag, trace |-> <<>>]
    /\ hist = [everOpened |-> FALSE, downgraded |-> FALSE,
               connects |-> 0, registers |-> 0, draws |-> 0,
               frames |-> 0]
    /\ disc = NoDiscovery
    /\ \E n \in 1..(MaxSegments + 1) :
         \E toks \in [1..n -> Tokens], seps \in [1..(n - 1) -> {"/", "\\"}] :
            route = Given(toks, Join(toks, seps))

ParsePath ==
    /\ route.phase = "given"
    /\ route' = Parsed(route, parse_connection_path(route.path))
    /\ UNCHANGED <<drv, call, hist, disc>>

NextParse == ParsePath

SpecParse == InitParse /\ [][NextParse]_vars

\* discover(), step by step.
InitDiscover ==
    /\ drv = __init__(TRUE, "None", 0)
    /\ call = [op |-> "init", connected |-> FALSE, name |-> "None",
               reqError |-> FALSE, pre |-> drv, fresh |-> TRUE,
               exc |-> NoExc, ret |-> "None", tag |-> NoTag, trace |-> <<>>]
    /\ hist = [everOpened |-> FALSE, downgraded |-> FALSE,
               connects |-> 0, registers |-> 0, draws |-> 0,
               frames |-> 0]
    /\ route = DefaultRoute
    /\ disc = NoDiscovery

Discover ==
    /\ disc.pc = "idle"
    /\ \E n \in 0..MaxAddrs : disc' = discover_begin(disc, n)
    /\ UNCHANGED <<drv, call, hist, route>>

\* The next probe: from the next local address, or from no address when
\* the probes from the local addresses found no device.
Probe ==
    /\ disc.pc = "loop"
    /\ disc.addrs > 0 \/ (disc.devices = <<>> /\ ~disc.fellBack)
    /\ \E setup \in {"ok", "fault"} :
          disc' = broadcast_discover_begin(
                      disc, IF disc.addrs > 0 THEN "addr" ELSE "None", setup)
    /\ UNCHANGED <<drv, call, hist, route>>

Recv ==
    /\ disc.pc = "recv"
    /\ \E o \in {"timeout", "fault"}
                \cup (IF disc.replies < MaxReplies
                      THEN {"match", "nomatch", "garbage"} ELSE {}) :
          disc' = broadcast_discover_recv(disc, o)
    /\ UNCHANGED <<drv, call, hist, route>>

Return ==
    /\ disc.pc = "loop"
    /\ disc.addrs = 0
    /\ disc.devices # <<>> \/ disc.fellBack
    /\ disc' = discover_return(disc)
    /\ UNCHANGED <<drv, call, hist, route>>

NextDiscover == Discover \/ Probe \/ Recv \/ Return

\* discover runs on its caller's thread and every receive returns or
\* raises within the socket's timeout, so a step that can be taken is taken.
SpecDiscover == InitDiscover /\ [][NextDiscover]_vars /\ WF_vars(NextDiscover)

\* ---------------------------------------------- reading a call's events

FOServices == {"forward_open", "large_forward_open"}
IsFO(e) == e.svc \in FOServices
\* The frames of trace t that went out on the wire, and the requests whose
\* transmission was tried (sent, or failed in the transport).
Sent(t) == SelectSeq(t, LAMBDA e : e.ev = "tx")
Tried(t) == SelectSeq(t, LAMBDA e : e.ev \in {"tx", "tx_fault"})
FOSent(t) == SelectSeq(t, LAMBDA e : e.ev = "tx" /\ IsFO(e))
FOTried(t) == SelectSeq(t, LAMBDA e : e.ev \in {"tx", "tx_fault"} /\ IsFO(e))
FOReplies(t) == SelectSeq(t, LAMBDA e : e.ev = "rx" /\ IsFO(e))
TriedKind(t, kind) == \E i \in 1..Len(t) :
    t[i].ev \in {"tx", "tx_fault"} /\ t[i].kind = kind
TriedSvc(t, svc) == \E i \in 1..Len(t) :
    t[i].ev \in {"tx", "tx_fault"} /\ t[i].svc = svc
SocketCloseTried(t) == \E i \in 1..Len(t) :
    t[i].ev \in {"sock_close", "sock_close_fault"}
TransportFault(t) == \E i \in 1..Len(t) :
    t[i].ev \in {"tx_fault", "rx_fault", "connect_fault", "sock_close_fault"}
ConnectedCall == call.op = "generic_message" /\ call.connected

\* ------------------------------------------------------------- claims

\* C1: a connected call attempts Forward Open; a rejected Extended attempt
\* downgrades the preference to Standard and is retried exactly once, a
\* rejected Standard attempt is not retried.  So one call sends at most two
\* Forward-Open requests (at most one when the preference is Standard), and
\* when every attempt is rejected the call raises ResponseError and the
\* wrapped operation is not executed.
C1_FallbackPolicy ==
    ConnectedCall =>
      LET fo == FOSent(call.trace)
          tried == FOTried(call.trace)
          re == FOReplies(call.trace)
      IN /\ Len(fo) <= 2 /\ Len(tried) <= 2
         /\ ~call.pre.ext => Len(tried) <= 1
         /\ (~call.pre.tconn /\ call.pre.session # 0) =>
               Len(call.trace) >= 1 /\ IsFO(call.trace[1])
         /\ Len(tried) = 2 =>
               /\ call.pre.ext /\ ~drv.ext
               /\ tried[1].svc = "large_forward_open"
               /\ tried[2].svc = "forward_open"
               /\ Len(re) >= 1 /\ ~re[1].valid
         /\ (Len(re) >= 1 /\ ~re[1].valid /\ call.pre.ext) =>
               ~drv.ext /\ Len(tried) = 2
         /\ (Len(re) >= 1 /\ ~re[Len(re)].valid
               /\ (Len(re) = 2 \/ ~call.pre.ext)) =>
               /\ call.exc.type = "ResponseError"
               /\ ~TriedKind(call.trace, "generic_connected")
               /\ call.tag = NoTag

\* C1 witness: an Extended and then a Standard Forward Open were both sent
\* and both rejected, and the call raised ResponseError.
C1_Witness ==
    /\ ConnectedCall
    /\ Len(FOSent(call.trace)) = 2
    /\ Len(FOReplies(call.trace)) = 2
    /\ call.exc.type = "ResponseError"

\* C2: the downgrade is sticky: once the preference is Standard it is
\* Standard after every later open(), close() and generic_message(), and
\* every Forward-Open request of a later call is a Standard one of size 500.
C2_StickyDowngrade ==
    [][ ~drv.ext =>
          /\ ~drv'.ext
          /\ connection_size(drv') = StandardSize
          /\ \A i \in 1..Len(call'.trace) :
                IsFO(call'.trace[i]) =>
                   /\ call'.trace[i].svc = "forward_open"
                   /\ call'.trace[i].ev = "tx" =>
                         call'.trace[i].size = StandardSize ]_vars

\* C2 witness: the preference was downgraded by an earlier call, and this
\* connected call sends a Standard Forward Open.
C2_Witness ==
    /\ hist.downgraded
    /\ ConnectedCall
    /\ ~call.pre.ext /\ ~call.pre.tconn
    /\ Len(FOSent(call.trace)) = 1
    /\ FOSent(call.trace)[1].size = StandardSize

\* C3: close() on a driver that was constructed but never opened sends
\* nothing and raises nothing.
C3_CloseNeverOpenedNoop ==
    (call.op = "close" /\ call.fresh) =>
        /\ Sent(call.trace) = <<>>
        /\ ~Raised(call.exc)

\* C4: close() attempts every teardown step whatever an earlier step
\* raised: Forward Close when connected, Unregister-Session when a session
\* is registered, the socket close when there is a socket; and when both
\* Forward Close and Unregister-Session fault the aggregate fault holds both
\* messages.
C4_EveryStepAttempted ==
    call.op = "close" =>
        /\ call.pre.tconn => TriedSvc(call.trace, "forward_close")
        /\ (call.pre.opened /\ Truthy(call.pre.session)) =>
               TriedKind(call.trace, "unregister_session")
        /\ call.pre.sock # "None" => SocketCloseTried(call.trace)

\* C5: on every exit path of close() the socket close was attempted, the
\* handle is none and the driver is fully closed: session id 0, connection
\* flag false, opened flag false.
C5_CloseAlwaysReleases ==
    call.op = "close" =>
        /\ drv.sock = "None" /\ ~drv.sockConn
        /\ drv.session = 0
        /\ ~drv.tconn
        /\ ~drv.opened
        /\ call.pre.sock # "None" => SocketCloseTried(call.trace)

\* C5 witness: a close() of a connected driver whose Forward Close and
\* socket close both faulted, so that it raised the aggregate fault.
C5_Witness ==
    /\ call.op = "close"
    /\ call.pre.tconn /\ call.pre.opened
    /\ call.exc.type = "CommError"
    /\ Len(call.exc.msgs) = 2
    /\ drv.sock = "None" /\ drv.session = 0

\* C6: open() on a driver whose transport is already open changes nothing
\* and sends nothing, so between two close() calls the transport is
\* connected once and Register-Session is sent at most once.
C6_OpenIdempotent ==
    /\ (call.op = "open" /\ call.pre.opened) =>
          /\ call.trace = <<>>
          /\ drv = call.pre
          /\ ~Raised(call.exc)
    /\ hist.connects <= 1
    /\ hist.registers <= 1
    /\ drv.opened => hist.connects = 1

\* C6 witness: a second open() after one that connected and registered.
C6_Witness ==
    /\ call.op = "open"
    /\ call.pre.opened
    /\ hist.connects = 1
    /\ hist.registers = 1

RegisterRejected(t) == \E i \in 1..Len(t) :
    t[i].ev = "rx" /\ t[i].kind = "register_session" /\ ~t[i].valid

\* C7: when the Register-Session reply carries no session id, open()
\* returns False and raises nothing, the transport stays connected (opened
\* flag true, socket held), the session id is 0, and a close() of a driver
\* in that state releases the transport.
C7_RegistrationFailureIsBoolean ==
    /\ (call.op = "open" /\ RegisterRejected(call.trace)) =>
          /\ call.ret = "False"
          /\ ~Raised(call.exc)
          /\ drv.opened /\ drv.sock = "Socket" /\ drv.sockConn
          /\ drv.session = 0
    /\ (call.op = "close" /\ call.pre.opened /\ call.pre.session = 0) =>
          /\ SocketCloseTried(call.trace)
          /\ drv.sock = "None" /\ ~drv.sockConn /\ ~drv.opened

\* C7 witness: an open() whose registration was rejected.
C7_Witness ==
    /\ call.op = "open"
    /\ RegisterRejected(call.trace)
    /\ call.ret = "False"
    /\ drv.opened

C9_ForwardOpenMemoized ==
    /\ call.pre.tconn => FOTried(call.trace) = <<>>
    /\ \A i \in 1..Len(call.trace), j \in 1..Len(call.trace) :
          (i < j /\ call.trace[i].ev = "rx" /\ IsFO(call.trace[i])
             /\ call.trace[i].valid) => ~IsFO(call.trace[j])
    /\ (ConnectedCall /\ call.pre.tconn) =>
          /\ drv.tconn
          /\ ~call.reqError =>
                /\ Len(call.trace) >= 1
                /\ call.trace[1].kind = "generic_connected"

\* C9 witness: a connected call on an open connection sent its request.
C9_Witness ==
    /\ ConnectedCall
    /\ call.pre.tconn
    /\ Len(Sent(call.trace)) = 1
    /\ Sent(call.trace)[1].kind = "generic_connected"

\* C10 as stated: generic_message raises only a transport-class fault
\* (CommError); every protocol-level failure comes back as a Result.
C10_RaisesOnlyTransportFaults ==
    (call.op = "generic_message" /\ Raised(call.exc)) =>
        call.exc.type = "CommError"

MessageReplies(t) == SelectSeq(t, LAMBDA e : e.ev = "rx" /\ e.svc = "user")
LastFORejected(t) ==
    /\ Len(FOReplies(t)) >= 1
    /\ ~FOReplies(t)[Len(FOReplies(t))].valid
    /\ Len(FOTried(t)) = Len(FOReplies(t))

\* C10 amended: a protocol-level failure of the message exchange itself is
\* never raised: whenever a reply to the request arrives, or the request was
\* invalid, the call returns a Result with the caller's label, the value and
\* the error text.  The call raises CommError exactly on a transport fault
\* or on a connected call with session id 0, and ResponseError exactly when
\* connected is true and the last Forward-Open attempt was rejected.
C10_ProtocolFailureOfMessageIsData ==
    call.op = "generic_message" =>
      LET re == MessageReplies(call.trace)
      IN /\ Len(re) <= 1
         /\ Len(re) = 1 =>
               /\ ~Raised(call.exc)
               /\ call.tag = [tag |-> call.name,
                              value |-> IF re[1].valid /\ ~call.reqError
                                        THEN "data" ELSE "None",
                              error |-> IF re[1].valid /\ ~call.reqError
                                        THEN "None" ELSE "error"]
         /\ ~Raised(call.exc) =>
               /\ call.tag.tag = call.name
               /\ call.reqError =>
                     /\ call.tag.error = "error"
                     /\ ~TriedSvc(call.trace, "user")
               /\ ~call.reqError => Len(re) = 1
         /\ call.exc.type = "ResponseError" <=>
               (call.connected /\ LastFORejected(call.trace))
         /\ call.exc.type = "CommError" <=>
               \/ TransportFault(call.trace)
               \/ (call.connected /\ ~call.pre.tconn /\ call.pre.session = 0)

\* C10 witness: a rejected reply to the message came back as a Result with
\* the caller's label and the error text.
C10_Witness ==
    /\ call.op = "generic_message"
    /\ call.name = "tagA"
    /\ Len(MessageReplies(call.trace)) = 1
    /\ ~MessageReplies(call.trace)[1].valid
    /\ ~Raised(call.exc)
    /\ call.tag = [tag |-> "tagA", value |-> "None", error |-> "error"]

\* The sequence values the connected requests of trace t were built with.
Drawn(t) == SelectSeq(t, LAMBDA e :
    e.ev \in {"tx", "tx_fault"} /\ e.kind = "generic_connected")

\* C11: the k-th draw from the sequence counter yields ((k-1) mod 65534) + 1:
\* 1, 2, ..., 65534 in order, never 0, and 1 again on the 65535th draw; no
\* call resets or rewinds the counter, so the next value depends only on
\* the number of draws made on the instance.
C11_SequenceCycle ==
    /\ drv.seq \in 1..SeqLast
    /\ drv.seq = (hist.draws % 65534) + 1
    /\ \A i \in 1..Len(Drawn(call.trace)) :
          /\ Drawn(call.trace)[i].seq # 0
          /\ Drawn(call.trace)[i].seq = ((hist.draws - 1) % 65534) + 1
    /\ Drawn(call.trace) = <<>> => drv.seq = call.pre.seq

\* C11 witness: after a close() and a new open(), the 65535th draw of the
\* instance yielded 1 again.
C11_Witness ==
    /\ hist.draws = 65535
    /\ drv.seq = 2
    /\ Len(Drawn(call.trace)) = 1
    /\ Drawn(call.trace)[1].seq = 1
    /\ hist.connects = 1 /\ ~call.pre.tconn

\* The tokens after the address in the path the route was written from.
Rest == Tail(route.toks)

\* C12: when the first token is a valid address the parser returns it, and
\* for no further token the single segment (bp, 0), for one further token t
\* the single segment (bp, t), for an even number n >= 2 of further tokens
\* the n/2 segments (token[2i], token[2i+1]) in input order; '\' separates
\* like '/'.
C12_ParseEvenShapes ==
    (/\ route.phase = "parsed"
     /\ ValidAddress(route.toks[1])
     /\ Len(Rest) <= 1 \/ Len(Rest) % 2 = 0)
    => /\ route.exc = NoExc
       /\ route.ip = route.toks[1]
       /\ Len(Rest) = 0 =>
             route.segments = <<[port |-> Str(<<"bp">>), link |-> IntZero]>>
       /\ Len(Rest) = 1 =>
             route.segments = <<[port |-> Str(<<"bp">>), link |-> Str(Rest[1])]>>
       /\ Len(Rest) >= 2 =>
             /\ Len(route.segments) = Len(Rest) \div 2
             /\ \A i \in 1..Len(route.segments) :
                   route.segments[i] = [port |-> Str(Rest[2 * i - 1]),
                                        link |-> Str(Rest[2 * i])]

\* C12 witness: four tokens after the address, written with both
\* separators, parsed into two segments in order.
C12_Witness ==
    /\ route.phase = "parsed"
    /\ route.path = <<"10.20.30.100", "\\", "bp", "/", "2", "\\", "bp", "/",
                      "10.20.30.100">>
    /\ route.segments = <<[port |-> Str(<<"bp">>), link |-> Str(<<"2">>)],
                          [port |-> Str(<<"bp">>),
                           link |-> Str(<<"10.20.30.100">>)]>>

\* C13 as stated: an odd number (three or more) of tokens after a valid
\* address does not fail and yields the floor(n/2) pairs, the trailing
\* token dropped.
C13_OddTrailingDropped ==
    (/\ route.phase = "parsed"
     /\ ValidAddress(route.toks[1])
     /\ Len(Rest) >= 3 /\ Len(Rest) % 2 = 1)
    => /\ route.exc = NoExc
       /\ Len(route.segments) = Len(Rest) \div 2
       /\ \A i \in 1..Len(route.segments) :
             route.segments[i] = [port |-> Str(Rest[2 * i - 1]),
                                  link |-> Str(Rest[2 * i])]

\* C13 amended: an odd number (three or more) of tokens after a valid
\* address makes the parser fail with RequestError 'Failed to parse
\* connection path'; no address and no segment is returned.
C13_OddTrailingFails ==
    (/\ route.phase = "parsed"
     /\ ValidAddress(route.toks[1])
     /\ Len(Rest) >= 3 /\ Len(Rest) % 2 = 1)
    => /\ route.exc = [type |-> "RequestError",
                       msgs |-> <<"Failed to parse connection path">>]
       /\ route.ip = <<>>
       /\ route.segments = <<>>

\* C13 witness: three tokens after a valid address were parsed.
C13_Witness ==
    /\ route.phase = "parsed"
    /\ route.path = <<"10.20.30.100", "/", "bp", "/", "2", "/", "bp">>
    /\ route.exc # NoExc

\* C14: discovery terminates.  A receive that times out is the last
\* receive of its probe; when no datagram arrived at all, every probe made
\* exactly one receive and discover returned the empty list; and every
\* discovery ends, returned or raised, given that each probe receives at
\* most MaxReplies datagrams.
C14_DiscoveryTerminates ==
    /\ [][(disc.pc = "recv" /\ disc'.recvs = disc.recvs + 1
           /\ disc'.last = "timeout") => disc'.pc = "loop"]_vars
    /\ []((disc.pc = "returned" /\ disc.got = 0)
            => (disc.devices = <<>> /\ disc.recvs = disc.probes
                /\ disc.fellBack))
    /\ <>(disc.pc \in {"returned", "raised"})

\* C14 witness: discover probed from two local addresses and from no
\* address, every receive timed out, and it returned no device.
C14_Witness ==
    /\ disc.pc = "returned"
    /\ disc.probes = 3
    /\ disc.recvs = 3
    /\ disc.got = 0
    /\ disc.last = "timeout"
    /\ disc.devices = <<>>

\* The request types the driver builds.
RequestKinds ==
    {"register_session", "unregister_session", "generic_unconnected",
     "generic_connected"}

\* What one send(d, req, x) does: nothing and a failure response for an
\* invalid request; else one transmit, followed by one receive unless the
\* transmit failed or the request expects no reply.
SendShape(d, req, x) ==
    Bind(send(d, req, x), LAMBDA r :
      IF req.error
      THEN r.t = <<>> /\ ~Raised(r.exc) /\ ~r.resp.valid
      ELSE /\ Len(r.t) \in {1, 2}
           /\ r.t[1].ev \in {"tx", "tx_fault"}
           /\ r.t[1].kind = req.kind
           /\ Len(r.t) = 2 <=> (r.t[1].ev = "tx" /\ ~req.no_response)
           /\ Len(r.t) = 2 => (r.t[2].ev \in {"rx", "rx_fault"}
                               /\ r.t[2].kind = req.kind)
           /\ r.t[Len(r.t)].ev \in {"tx_fault", "rx_fault"} <=> Raised(r.exc))

\* C15: send() transmits at most one frame and receives at most one frame:
\* an invalid request causes no transmit and no receive and yields a
\* failure response; a valid request is transmitted once and followed by
\* one receive, except Unregister-Session, which is followed by none.  So
\* in every call of the driver each receive comes directly after the
\* transmit of the request it answers, and each transmit of a request that
\* expects a reply is directly followed by its receive.
C15_OneFramePerExchange ==
    /\ \A kind \in RequestKinds, error \in BOOLEAN, o \in Outcomes :
          SendShape(drv, Request(kind, "user", error), Plain(o))
    /\ \A i \in 1..Len(call.trace) :
          /\ call.trace[i].ev \in {"rx", "rx_fault"} =>
                /\ i > 1
                /\ call.trace[i - 1].ev = "tx"
                /\ call.trace[i - 1].kind = call.trace[i].kind
                /\ call.trace[i - 1].svc = call.trace[i].svc
                /\ call.trace[i].kind # "unregister_session"
          /\ (call.trace[i].ev = "tx"
              /\ call.trace[i].kind # "unregister_session") =>
                /\ i < Len(call.trace)
                /\ call.trace[i + 1].ev \in {"rx", "rx_fault"}
    /\ (call.op = "generic_message" /\ call.reqError) =>
          /\ ~TriedSvc(call.trace, "user")
          /\ ~Raised(call.exc) => ~TagTruthy(call.tag)

\* C15 witness: a close() transmitted a Forward Close, received its reply,
\* transmitted Unregister-Session and received nothing more.
C15_Witness ==
    /\ call.op = "close"
    /\ Len(call.trace) = 4
    /\ call.trace[1].ev = "tx" /\ call.trace[1].svc = "forward_close"
    /\ call.trace[2].ev = "rx"
    /\ call.trace[3].ev = "tx" /\ call.trace[3].kind = "unregister_session"
    /\ call.trace[4].ev = "sock_close"

\* The connected frames of trace t that went out on the wire.
ConnectedSent(t) == SelectSeq(t, LAMBDA e :
    e.ev = "tx" /\ e.kind = "generic_connected")

\* C16 as stated: the sequence counter is advanced once per connected
\* request that is transmitted, so the k-th connected frame on the wire
\* carries the k-th value of the cycle.
C16_AdvancedPerTransmitted ==
    /\ drv.seq = (hist.frames % 65534) + 1
    /\ \A i \in 1..Len(ConnectedSent(call.trace)) :
          ConnectedSent(call.trace)[i].seq = ((hist.frames - 1) % 65534) + 1

\* C16 amended: the sequence counter is advanced once per valid connected
\* request that send() builds, whether or not its transmit succeeds; no
\* other request carries or consumes a sequence value; so the k-th
\* connected request built carries the k-th value of the cycle.
C16_AdvancedPerConnectedRequestBuilt ==
    /\ \A i \in 1..Len(call.trace) :
          call.trace[i].kind # "generic_connected" => call.trace[i].seq = 0
    /\ Len(Drawn(call.trace)) <= 1
    /\ Len(Drawn(call.trace)) = 1 => (ConnectedCall /\ ~call.reqError)
    /\ (ConnectedCall /\ ~call.reqError /\ call.pre.tconn)
          => Len(Drawn(call.trace)) = 1
    /\ Len(Drawn(call.trace)) = 1 =>
          /\ Drawn(call.trace)[1].seq = call.pre.seq
          /\ drv.seq = IF call.pre.seq = 65534 THEN 1 ELSE call.pre.seq + 1
    /\ Len(Drawn(call.trace)) = 0 => drv.seq = call.pre.seq
    /\ hist.frames <= hist.draws
    /\ Len(Drawn(call.trace)) = 1 =>
          Drawn(call.trace)[1].seq = ((hist.draws - 1) % 65534) + 1

\* C16 witness: a connected request drew a value and its transmit failed,
\* so fewer connected frames went out than values were drawn.
C16_Witness ==
    /\ ConnectedCall
    /\ Len(Drawn(call.trace)) = 1
    /\ Drawn(call.trace)[1].ev = "tx_fault"
    /\ drv.seq = call.pre.seq + 1
    /\ hist.frames < hist.draws

OpenConnected ==
    /\ call.op = "open"
    /\ call.trace # <<>>
    /\ call.trace[1].ev = "connect"

\* C18 as stated: an open() that connects the transport leaves none of
\* connection_serial_number, vendor_id and vendor_serial_number at its
\* construction-time value.
C18_AllIdentifiersRegenerated ==
    OpenConnected =>
       (drv.csn # "ctor" /\ drv.vid # "ctor" /\ drv.vsn # "ctor")

\* C18 amended: an open() that connects the transport draws the connection
\* id (cid) and the vendor serial number (vsn) anew before the
\* Register-Session exchange, whatever becomes of that exchange; the
\* connection serial number (csn) and the vendor id (vid) keep their
\* construction-time values for the life of the driver; no other call
\* changes any of the four.
C18_OpenRegeneratesCidAndVsn ==
    /\ drv.csn = "ctor" /\ drv.vid = "ctor"
    /\ OpenConnected => (drv.cid = "urandom" /\ drv.vsn = "urandom")
    /\ ~OpenConnected => (drv.cid = call.pre.cid /\ drv.vsn = call.pre.vsn)
    /\ ~hist.everOpened => (drv.cid = "ctor" /\ drv.vsn = "ctor")

\* C18 witness: the first open() connected and its Register-Session send
\* faulted; cid and vsn are new all the same, csn and vid are not.
C18_Witness ==
    /\ OpenConnected
    /\ call.fresh
    /\ Len(call.trace) = 2
    /\ call.trace[2].ev = "tx_fault"
    /\ call.trace[2].kind = "register_session"
    /\ call.pre.cid = "ctor" /\ drv.cid = "urandom"
    /\ call.pre.vsn = "ctor" /\ drv.vsn = "urandom"
    /\ drv.csn = "ctor" /\ drv.vid = "ctor"

\* The positions of trace t where the transmit of a frame with service svc
\* / of request type kind was tried, and where the socket was closed.
SvcAt(t, svc) == {i \in 1..Len(t) : t[i].ev \in {"tx", "tx_fault"} /\ t[i].svc = svc}
KindAt(t, kind) == {i \in 1..Len(t) : t[i].ev \in {"tx", "tx_fault"} /\ t[i].kind = kind}
SockCloseAt(t) == {i \in 1..Len(t) : t[i].ev \in {"sock_close", "sock_close_fault"}}

\* What _forward_close does on driver d when the exchange goes as o:
\* with session id 0 it raises without sending; a successful exchange
\* clears the connection flag and any other leaves it.
ForwardCloseEffect(d, o) ==
    Bind(_forward_close(d, Plain(o)), LAMBDA r :
      /\ d.session = 0 => (r.t = <<>> /\ r.exc.type = "CommError" /\ r.d = d)
      /\ d.session # 0 => TriedSvc(r.t, "forward_close")
      /\ (d.session # 0 /\ d.sockConn /\ o = "ok") => (~r.d.tconn /\ r.ret)
      /\ (d.session # 0 /\ o # "ok") => r.d.tconn = d.tconn)

\* C19: in close() a Forward Close is attempted only when the connection
\* flag is true and the session id is not 0; an Unregister-Session only
\* when the session id is not 0; the Forward-Close exchange, when made, is
\* complete (sent and answered) before Unregister-Session is sent, and
\* that precedes the socket close.  _forward_close with session id 0
\* faults without sending, and a successful Forward Close clears the
\* connection flag.
C19_TeardownOrder ==
    /\ \A o \in Outcomes : ForwardCloseEffect(drv, o)
    /\ call.op = "close" =>
          /\ SvcAt(call.trace, "forward_close") # {} =>
                (call.pre.tconn /\ call.pre.session # 0)
          /\ call.pre.tconn => SvcAt(call.trace, "forward_close") # {}
          /\ KindAt(call.trace, "unregister_session") # {} =>
                call.pre.session # 0
          /\ Cardinality(SvcAt(call.trace, "forward_close")) <= 1
          /\ Cardinality(KindAt(call.trace, "unregister_session")) <= 1
          /\ \A i \in SvcAt(call.trace, "forward_close"),
                j \in KindAt(call.trace, "unregister_session") :
                /\ i + 1 < j
                /\ call.trace[i].ev = "tx"
                /\ call.trace[i + 1].ev = "rx"
                /\ call.trace[i + 1].svc = "forward_close"
          /\ \A k \in SockCloseAt(call.trace) :
                /\ k = Len(call.trace)
                /\ \A i \in SvcAt(call.trace, "forward_close")
                            \cup KindAt(call.trace, "unregister_session") : i < k

\* C19 witness: a close() of a connected driver made the Forward-Close
\* exchange, then sent Unregister-Session, then closed the socket.
C19_Witness ==
    /\ call.op = "close"
    /\ call.pre.tconn /\ Truthy(call.pre.session)
    /\ SvcAt(call.trace, "forward_close") = {1}
    /\ call.trace[2].ev = "rx" /\ call.trace[2].valid
    /\ KindAt(call.trace, "unregister_session") = {3}
    /\ SockCloseAt(call.trace) = {4}
    /\ ~Raised(call.exc)

\* C20: with a session id already known (not None, not 0),
\* _register_session returns that id and sends nothing; so an open() that
\* connects the transport sends no Register-Session request, leaves the
\* session id as it was and returns True.
C20_KnownSessionShortCircuits ==
    /\ Truthy(drv.session) =>
          \A o \in Outcomes, sid \in SessionIds :
             _register_session(drv, Exchange(o, sid))
                = [d |-> drv, t |-> <<>>, exc |-> NoExc, ret |-> drv.session]
    /\ (OpenConnected /\ Truthy(call.pre.session)) =>
          /\ call.trace = <<SockEv("connect")>>
          /\ ~TriedKind(call.trace, "register_session")
          /\ drv.session = call.pre.session
          /\ call.ret = "True"
          /\ ~Raised(call.exc)
          /\ drv.opened

\* C20 witness: a driver constructed with session id 2 was opened for the
\* first time; the transport connected and nothing was sent.
C20_Witness ==
    /\ OpenConnected
    /\ call.fresh
    /\ call.pre.session = 2
    /\ drv.session = 2
    /\ call.trace = <<SockEv("connect")>>
    /\ call.ret = "True"

\* C21: on a driver constructed without an injected socket or session, in
\* every state reached through open(), close() and generic_message() the
\* connection flag being true implies that the transport is open (opened
\* flag true, a connected socket held) and the session id is a registered
\* non-zero value: the flag is never true on an unopened, closed or
\* unregistered driver.
C21_ConnectedImpliesOpenAndRegistered ==
    drv.tconn =>
       /\ drv.opened
       /\ drv.sock # "None" /\ drv.sockConn
       /\ drv.session # NONE /\ drv.session # 0
       /\ drv.session \in SessionIds
       /\ hist.everOpened

\* C21 witness: a connected message on a connected driver, not its first,
\* failed in the transport; the connection flag is still true, on an open
\* and registered driver.
C21_Witness ==
    /\ drv.tconn
    /\ ConnectedCall
    /\ call.pre.tconn
    /\ TransportFault(call.trace)
    /\ drv.opened /\ drv.session \in SessionIds
    /\ hist.connects = 1
    /\ hist.draws >= 2

\* The state close() leaves the driver in.
Closed(d) ==
    /\ d.session = 0
    /\ ~d.tconn
    /\ ~d.opened
    /\ d.sock = "None"

\* C22: a close() that directly follows a close(), whether that one
\* returned or raised, sends no request, touches no socket, raises no fault
\* and leaves the driver as it was: session id 0, connection flag false,
\* opened flag false, no socket.
C22_CloseIdempotent ==
    [][(call.op = "close" /\ call'.op = "close")
         => /\ Closed(drv)
            /\ call'.pre = drv
            /\ call'.trace = <<>>
            /\ ~Raised(call'.exc)
            /\ drv' = drv]_vars

\* C22 witness: a close() of a driver that had been opened and closed
\* before (after open(), only close() takes the socket away) did nothing.
C22_Witness ==
    /\ call.op = "close"
    /\ ~call.fresh
    /\ Closed(call.pre)
    /\ call.trace = <<>>
    /\ ~Raised(call.exc)
    /\ drv = call.pre

====
